---------------------------- MODULE Spec2Model ----------------------------
(***************************************************************************)
(* Model of the project-bootstrap and deploy pipeline of create-cloudflare *)
(* (src/unnamed/part_000): setupProjectDirectory, offerToDeploy,           *)
(* chooseAccount, offerGit, initializeGit, gitCommit, runDeploy and        *)
(* printSummary, acting on the shared session context ctx.                 *)
(*                                                                         *)
(* Text is modelled as a sequence of lexemes (TLA+ strings); the text a    *)
(* sequence stands for is the concatenation of its lexemes.  The lexemes   *)
(* are chosen so that every literal the code looks for ("https://",        *)
(* ".pages.dev", "://", ".") starts and ends on a lexeme boundary.         *)
(***************************************************************************)
EXTENDS Integers, Sequences, FiniteSets

VARIABLES
    pc,          \* the step the pipeline is about to run, "done" or "crashed"
    error,       \* the failure that ended the run, "none" while there is none
    ctx,         \* the session context (PagesGeneratorContext)
    projectName, \* args.projectName, as given on the command line
    cwd,         \* process.cwd()
    fs,          \* the paths at which a filesystem entry exists
    git,         \* the machine: is git runnable, is the project inside a repository
    cmds,        \* every runCommand / runCommands invocation so far, in order
    prompts,     \* every interactive question asked so far, in order
    obs,         \* what the most recent call of a step observed and did
    ui           \* what printSummary has rendered

vars == <<pc, error, ctx, projectName, cwd, fs, git, cmds, prompts, obs, ui>>

-----------------------------------------------------------------------------
(* Optional values: undefined is the empty sequence, a defined v is <<v>>.  *)

Undefined == <<>>
Some(v) == <<v>>
IsDefined(o) == o # Undefined
Get(o) == o[1]

\* JavaScript truthiness of an optional boolean (undefined and false are falsy).
Truthy(o) == o = Some(TRUE)

-----------------------------------------------------------------------------
(* Bounds of the model.                                                     *)

MaxUrls == 2      \* URL-like pieces in one deploy output
MaxLabels == 2    \* host labels in front of the suffix of one piece
MaxDepth == 2     \* path segments of the working directory and of a project name
MaxCalls == 2     \* calls of offerGit in the version-control specification
MaxAccounts == 2  \* entries of the account mapping

-----------------------------------------------------------------------------
(* Text helpers (String.prototype methods on lexeme sequences).             *)

Last(s) == s[Len(s)]

\* s.startsWith(p) at position i (1-based): p occurs in s starting at i
OccursAt(s, p, i) ==
    /\ i >= 1
    /\ i + Len(p) - 1 <= Len(s)
    /\ \A k \in 1..Len(p) : s[i + k - 1] = p[k]

\* s.endsWith(p)
EndsWith(s, p) == Len(p) <= Len(s) /\ OccursAt(s, p, Len(s) - Len(p) + 1)

\* s.includes(lexeme)
Includes(s, x) == \E i \in 1..Len(s) : s[i] = x

\* s.split(sep) for a one-lexeme separator: the pieces between the separators
RECURSIVE Split(_, _)
Split(s, sep) ==
    IF \A i \in 1..Len(s) : s[i] # sep
    THEN <<s>>
    ELSE LET i == CHOOSE j \in 1..Len(s) :
                      s[j] = sep /\ \A k \in 1..(j - 1) : s[k] # sep
         IN <<SubSeq(s, 1, i - 1)>> \o Split(SubSeq(s, i + 1, Len(s)), sep)

\* parts.slice(-n)
SliceLast(parts, n) ==
    IF Len(parts) <= n THEN parts ELSE SubSeq(parts, Len(parts) - n + 1, Len(parts))

\* parts.join(sep)
RECURSIVE Join(_, _)
Join(parts, sep) ==
    IF Len(parts) = 0 THEN <<>>
    ELSE IF Len(parts) = 1 THEN parts[1]
    ELSE parts[1] \o <<sep>> \o Join(Tail(parts), sep)

\* the largest and the smallest of a set of numbers
Max(S) == CHOOSE x \in S : \A y \in S : y <= x
Min(S) == CHOOSE x \in S : \A y \in S : x <= y

Whitespace == {" ", "\n"}

\* s.trim()
RECURSIVE Trim(_)
Trim(s) ==
    IF Len(s) = 0 THEN s
    ELSE IF s[1] \in Whitespace THEN Trim(Tail(s))
    ELSE IF Last(s) \in Whitespace THEN Trim(SubSeq(s, 1, Len(s) - 1))
    ELSE s

-----------------------------------------------------------------------------
(* Failures.  crash() (helpers/cli) prints the message and ends the        *)
(* process; an error raised by an external call and caught nowhere ends    *)
(* the run as well.                                                         *)

DirectoryConflict == "Directory already exists. Please choose a new name."
MissingAccount == "Failed to read Cloudflare account."
NoDeploymentUrl == "Failed to find deployment url."
CommandFailed == "command failed"
BrowserFailed == "open failed"
MkdirFailed == "mkdir failed"

\* crash(msg): the run ends here with msg
Crash(msg) == pc' = "crashed" /\ error' = msg

\* an error thrown by a collaborator propagates out of the step, uncaught
Raise(err) == pc' = "crashed" /\ error' = err

\* the step returns normally and the orchestrator moves on to step next
Return(next) == pc' = next /\ error' = error

\* The fixed order of the steps: resolve the path, decide on the deploy, set
\* up version control, commit, deploy, print the summary.
NextStep(step) ==
    CASE step = "setup" -> "offerToDeploy"
      [] step = "offerToDeploy" -> "offerGit"
      [] step = "offerGit" -> "gitCommit"
      [] step = "gitCommit" -> "runDeploy"
      [] step = "runDeploy" -> "printSummary"
      [] step = "printSummary" -> "done"

\* one entry of the command log: a runCommand call and how it ended
Ran(cmd, dir, env, ok, out) ==
    [cmd |-> cmd, cwd |-> dir, env |-> env, ok |-> ok, out |-> out]

\* what a step remembers of the state it was called in
Entry(step) ==
    [step |-> step, ctx0 |-> ctx, c0 |-> Len(cmds), p0 |-> Len(prompts),
     listed |-> <<>>]

\* the commands and the prompts of the most recent step
StepCmds == SubSeq(cmds, obs.c0 + 1, Len(cmds))
StepPrompts == SubSeq(prompts, obs.p0 + 1, Len(prompts))

-----------------------------------------------------------------------------
(* setupProjectDirectory.  An absolute path is the sequence of its segments *)
(* (the root is <<>>); a project name is a path string, absolute or        *)
(* relative, whose segments may be "." and "..".                           *)

Names == {"a", "b"}

Prefixes(path) == { SubSeq(path, 1, k) : k \in 0..Len(path) }

\* path.dirname, path.basename of an absolute path
Dirname(path) == IF path = <<>> THEN <<>> ELSE SubSeq(path, 1, Len(path) - 1)
Basename(path) == IF path = <<>> THEN "" ELSE Last(path)

\* path.resolve(name) in working directory dir
RECURSIVE Walk(_, _)
Walk(base, segs) ==
    IF segs = <<>> THEN base
    ELSE IF Head(segs) = "." THEN Walk(base, Tail(segs))
    ELSE IF Head(segs) = ".." THEN Walk(Dirname(base), Tail(segs))
    ELSE Walk(Append(base, Head(segs)), Tail(segs))

Resolve(name, dir) == Walk(IF name.abs THEN <<>> ELSE dir, name.segs)

\* fs.existsSync(path)
ExistsSync(path) == path \in fs.dirs \cup fs.files

\* the guard without its isCWD half
ConflictAlways(path) == ExistsSync(path)

\* lines 34-37, !isCWD && existsAlready: the guard of the crash
Conflict(path) == path # cwd /\ ExistsSync(path)

SetupProjectDirectory ==
    /\ pc = "setup"
    /\ obs' = Entry("setup")
    /\ UNCHANGED <<projectName, git, cmds, prompts, ui>>
    /\ LET path == Resolve(projectName, cwd)
           directory == Dirname(path)
           name == Basename(path)
       IN IF Conflict(path)
          THEN Crash(DirectoryConflict) /\ UNCHANGED <<ctx, cwd, fs>>
          ELSE IF Prefixes(directory) \cap fs.files # {}
          THEN \* mkdirSync throws: an ancestor is a regular file
               Raise(MkdirFailed) /\ UNCHANGED <<ctx, cwd, fs>>
          ELSE /\ fs' = [fs EXCEPT !.dirs = @ \cup Prefixes(directory)]
               /\ cwd' = directory
               /\ ctx' = [ctx EXCEPT !.project = Some([name |-> name, path |-> path])]
               /\ Return(NextStep("setup"))

-----------------------------------------------------------------------------
(* offerToDeploy and chooseAccount.  An account listing is a sequence of    *)
(* name-id pairs with distinct names, in the key order of the object that   *)
(* listAccounts returns.                                                    *)

AccountNames == { IF i = 1 THEN "acme" ELSE IF i = 2 THEN "beta" ELSE "gamma" :
                    i \in 1..MaxAccounts }
AccountIds == {"acct_1", "acct_2"}

\* what listAccounts can return: no account at all, one, or several
Listings ==
    { l \in UNION { [1..n -> [name : AccountNames, id : AccountIds]] : n \in 0..MaxAccounts } :
        \A i, j \in 1..Len(l) : i # j => l[i].name # l[j].name }

ListingFailed == "listAccounts failed"
LoginQuestion == "wrangler login"
DeployQuestion == "Do you want to deploy your application?"
AccountQuestion == "Which account do you want to use?"
DeploySection == "Deploy with Cloudflare"
SelectingAccount == "Selecting Cloudflare account"

\* an id that is undefined (and so falsy)
NoId == ""

\* confirmInput: a value given beforehand is returned without asking,
\* otherwise the operator answers.  The outcomes: the value and whether the
\* question was asked.
ConfirmInput(initialValue) ==
    IF IsDefined(initialValue)
    THEN { [value |-> Get(initialValue), asked |-> FALSE] }
    ELSE { [value |-> answer, asked |-> TRUE] : answer \in BOOLEAN }

Asked(question, r) ==
    IF r.asked THEN <<[question |-> question, answer |-> r.value]>> ELSE <<>>

\* selectInput: the value of the option the operator picks; with no option to
\* pick there is no value
SelectInput(options) ==
    IF options = <<>> THEN {NoId} ELSE { options[i].value : i \in 1..Len(options) }

\* a lookup that takes the first key whatever its id
FindFirstName(accounts, accountId) ==
    IF accounts = <<>> THEN Undefined ELSE Some(accounts[1].name)

\* lines 140-142: Object.keys(accounts).find(name => accounts[name] == accountId)
FindName(accounts, accountId) ==
    LET hits == { i \in 1..Len(accounts) : accounts[i].id = accountId }
    IN IF hits = {} THEN Undefined ELSE Some(accounts[Min(hits)].name)

\* a test for the single account that is off by one
IsSoleAccountOffByOne(accounts) == Len(accounts) = 2

\* line 119: Object.keys(accounts).length == 1
IsSoleAccount(accounts) == Len(accounts) = 1

\* lines 127-130: Object.entries(accounts).map(([name, id]) => ({label, value}))
AccountOptions(accounts) ==
    [i \in 1..Len(accounts) |-> [label |-> accounts[i].name, value |-> accounts[i].id]]

\* lines 112-145: the outcomes of chooseAccount on a listing: the account it
\* stores, and the selection prompt if it showed one
ChooseAccount(accounts) ==
    IF IsSoleAccount(accounts)
    THEN { [account |-> [id |-> accounts[1].id, name |-> FindName(accounts, accounts[1].id)],
            asked |-> <<>>] }
    ELSE { [account |-> [id |-> accountId, name |-> FindName(accounts, accountId)],
            asked |-> <<[question |-> AccountQuestion, answer |-> accountId]>>] :
             accountId \in SelectInput(AccountOptions(accounts)) }

\* a login whose failure does not stop the step
ProceedsAnyway(loginSuccess) == TRUE

\* line 72: if (!loginSuccess) return
Proceeds(loginSuccess) == loginSuccess

\* lines 55-75.  The login is an interaction like the questions and is logged
\* with them.
OfferToDeploy ==
    /\ pc = "offerToDeploy"
    /\ UNCHANGED <<projectName, cwd, fs, git, cmds>>
    /\ \E deploy \in ConfirmInput(ctx.args.deploy) :
         LET asked == Asked(DeployQuestion, deploy)
             decided == [ctx EXCEPT !.args.deploy = Some(deploy.value)]
         IN IF ~deploy.value
            THEN /\ ctx' = decided
                 /\ prompts' = prompts \o asked
                 /\ ui' = Append(ui, DeploySection)
                 /\ obs' = Entry("offerToDeploy")
                 /\ Return(NextStep("offerToDeploy"))
            ELSE \E loginSuccess \in BOOLEAN :
                   LET login == <<[question |-> LoginQuestion, answer |-> loginSuccess]>>
                   IN IF ~Proceeds(loginSuccess)
                      THEN /\ ctx' = decided
                           /\ prompts' = prompts \o asked \o login
                           /\ ui' = Append(ui, DeploySection)
                           /\ obs' = Entry("offerToDeploy")
                           /\ Return(NextStep("offerToDeploy"))
                      ELSE \/ \* listAccounts fails, nothing catches it
                              /\ ctx' = decided
                              /\ prompts' = prompts \o asked \o login
                              /\ ui' = ui \o <<DeploySection, SelectingAccount>>
                              /\ obs' = Entry("offerToDeploy")
                              /\ Raise(ListingFailed)
                           \/ \E accounts \in Listings :
                                \E chosen \in ChooseAccount(accounts) :
                                  /\ ctx' = [decided EXCEPT !.account = Some(chosen.account)]
                                  /\ prompts' = prompts \o asked \o login \o chosen.asked
                                  /\ ui' = ui \o <<DeploySection, SelectingAccount>>
                                  /\ obs' = [Entry("offerToDeploy") EXCEPT
                                               !.listed = Some(accounts)]
                                  /\ Return(NextStep("offerToDeploy"))

-----------------------------------------------------------------------------
(* offerGit, isGitInstalled, isInsideGitRepo, initializeGit, gitCommit.     *)
(* git.installed: `git -v` exits 0.  git.repo: the project directory lies   *)
(* inside a repository.                                                     *)

GitFailed == "git init failed"
GitAdvisory == "Couldn't find git installed on your machine. Continuing without git."
NotARepo == "not a git repository"

GitVersion == <<"git", "-v">>
GitStatus == <<"git", "status">>
GitConfig == <<"git", "config", "--get", "init.defaultBranch">>
GitInitBranch == <<"git", "init", "--initial-branch">>
GitInit == <<"git", "init">>
GitAdd == <<"git", "add", ".">>
GitCommitCmd == <<"git", "commit", "-m", "Initial commit (by Create-Cloudflare CLI)">>

\* lines 258-266: the outcome of `git -v`
IsGitInstalled == Ran(GitVersion, Undefined, Undefined, git.installed, <<>>)

\* What `git status` can do in dir: inside a repository it reports the branch
\* or fails for another reason; outside it fails, or prints that it is not a
\* git repository.
StatusRuns(dir) ==
    { Ran(GitStatus, Some(dir), Undefined, FALSE, <<>>) } \cup
    ( IF git.repo
      THEN { Ran(GitStatus, Some(dir), Undefined, TRUE, <<"On branch ", "main">>) }
      ELSE { Ran(GitStatus, Some(dir), Undefined, TRUE,
                 <<"fatal: ", NotARepo, " (or any of the parent directories): .git">>) } )

\* isInsideGitRepo with the test of the output turned around
InsideGitRepoInverted(run) == run.ok /\ Includes(run.out, NotARepo)

\* a catch block that takes a failed query for a repository
InsideGitRepoOnFailure(run) == ~run.ok \/ ~Includes(run.out, NotARepo)

\* lines 272-285: the value isInsideGitRepo returns after run
InsideGitRepo(run) == run.ok /\ ~Includes(run.out, NotARepo)

\* v ?? d, for an optional v
Coalesce(v, d) == IF IsDefined(v) THEN Get(v) ELSE d

\* line 303: defaultBranchName.trim() ?? "main" (trim always yields a string)
BranchRequested(defaultBranchName) ==
    Coalesce(Some(Trim(defaultBranchName)), <<"main">>)

\* what `git config --get init.defaultBranch` can print when it exits 0
ConfigOutputs == { <<>>, <<"\n">>, <<"trunk", "\n">>, <<"main", "\n">> }

\* lines 294-305, the try block: the config query, then the branch-aware init.
\* Each run is the commands it made, in order, and whether it raised.  A
\* branch-aware init without a branch name cannot succeed.
TryInit(dir) ==
    LET run(cmd, ok, out) == Ran(cmd, Some(dir), Undefined, ok, out)
    IN { [log |-> <<run(GitConfig, FALSE, <<>>)>>, raised |-> TRUE] }
       \cup
       UNION { { [log |-> <<run(GitConfig, TRUE, out),
                            run(GitInitBranch \o BranchRequested(out), ok, <<>>)>>,
                  raised |-> ~ok] :
                   ok \in { b \in BOOLEAN : b => BranchRequested(out) # <<>> } }
               : out \in ConfigOutputs }

\* a catch block that guards the plain init as well
FallbackGuarded(dir) ==
    { [log |-> <<Ran(GitInit, Some(dir), Undefined, ok, <<>>)>>, raised |-> FALSE] :
        ok \in BOOLEAN }

\* lines 306-309, the catch block: plain `git init`, awaited outside any try
Fallback(dir) ==
    { [log |-> <<Ran(GitInit, Some(dir), Undefined, ok, <<>>)>>, raised |-> ~ok] :
        ok \in BOOLEAN }

\* initializeGit without its catch block
InitializeGitNoRetry(dir) == TryInit(dir)

\* lines 293-310: the runs of initializeGit(dir)
InitializeGit(dir) ==
    { t \in TryInit(dir) : ~t.raised }
    \cup { [log |-> t.log \o f.log, raised |-> f.raised] :
             t \in { u \in TryInit(dir) : u.raised }, f \in Fallback(dir) }

\* an override of the flag that spares an explicit --git
GitWithoutToolKeepExplicit(useGit) == IF IsDefined(useGit) THEN useGit ELSE Some(FALSE)

\* an override that forgets the flag
GitWithoutToolCleared(useGit) == Undefined

\* line 215: ctx.args.git when git is not installed, whatever it was
GitWithoutTool(useGit) == Some(FALSE)

\* some command of log created a repository
Initialized(log) ==
    \E i \in 1..Len(log) : log[i].ok /\ SubSeq(log[i].cmd, 1, 2) = GitInit

GitQuestion == "Do you want to use git?"

\* a plain assignment, which asks whatever the flag is
UndecidedAlways(useGit) == TRUE

\* line 224: ??= evaluates the prompt only for an undefined ctx.args.git
Undecided(useGit) == ~IsDefined(useGit)

\* lines 203-238, called when pc = from
OfferGitAt(from) ==
    /\ pc = from
    /\ obs' = Entry("offerGit")
    /\ UNCHANGED <<projectName, cwd, fs>>
    /\ LET gitInstalled == IsGitInstalled
           dir == Get(ctx.project).path
       IN IF ~gitInstalled.ok
          THEN /\ cmds' = Append(cmds, gitInstalled)
               /\ ui' = IF Truthy(ctx.args.git) THEN Append(ui, GitAdvisory) ELSE ui
               /\ ctx' = [ctx EXCEPT !.args.git = GitWithoutTool(@)]
               /\ Return(NextStep("offerGit"))
               /\ UNCHANGED <<git, prompts>>
          ELSE \E status \in StatusRuns(dir) :
                 IF InsideGitRepo(status)
                 THEN /\ cmds' = cmds \o <<gitInstalled, status>>
                      /\ Return(NextStep("offerGit"))
                      /\ UNCHANGED <<ctx, git, prompts, ui>>
                 ELSE \E answer \in BOOLEAN :
                        LET asked == Undecided(ctx.args.git)
                            useGit == IF asked THEN Some(answer) ELSE ctx.args.git
                        IN /\ asked \/ answer
                           /\ prompts' = IF asked
                                         THEN Append(prompts,
                                                [question |-> GitQuestion,
                                                 answer |-> answer])
                                         ELSE prompts
                           /\ ctx' = [ctx EXCEPT !.args.git = useGit]
                           /\ ui' = ui
                           /\ IF Truthy(useGit)
                              THEN \E init \in InitializeGit(dir) :
                                     /\ cmds' = cmds \o <<gitInstalled, status>> \o init.log
                                     /\ git' = [git EXCEPT !.repo = @ \/ Initialized(init.log)]
                                     /\ IF init.raised THEN Raise(GitFailed)
                                        ELSE Return(NextStep("offerGit"))
                              ELSE /\ cmds' = cmds \o <<gitInstalled, status>>
                                   /\ git' = git
                                   /\ Return(NextStep("offerGit"))

OfferGit == OfferGitAt("offerGit")

\* how many times offerGit has been called
Calls == Cardinality({ i \in 1..Len(cmds) : cmds[i].cmd = GitVersion })

\* the caller calls offerGit once more before committing
OfferGitAgain == Calls < MaxCalls /\ OfferGitAt("gitCommit")

\* a guard that only a declined git stops
CommitsGitUnlessDeclined(c) == c.args.git # Some(FALSE)

\* line 241: !ctx.args.git is false
CommitsGit(c) == Truthy(c.args.git)

\* lines 240-253: runCommands runs `git add .`, then `git commit`, and stops at
\* the first that fails
GitCommit ==
    /\ pc = "gitCommit"
    /\ obs' = Entry("gitCommit")
    /\ UNCHANGED <<ctx, projectName, cwd, fs, git, prompts, ui>>
    /\ IF ~CommitsGit(ctx)
       THEN Return(NextStep("gitCommit")) /\ UNCHANGED cmds
       ELSE LET run(cmd, ok) == Ran(cmd, Some(Get(ctx.project).path), Undefined, ok, <<>>)
            IN \/ cmds' = cmds \o <<run(GitAdd, FALSE)>> /\ Raise(CommandFailed)
               \/ cmds' = cmds \o <<run(GitAdd, TRUE), run(GitCommitCmd, FALSE)>>
                    /\ Raise(CommandFailed)
               \/ cmds' = cmds \o <<run(GitAdd, TRUE), run(GitCommitCmd, TRUE)>>
                    /\ Return(NextStep("gitCommit"))

-----------------------------------------------------------------------------
(* runDeploy                                                                *)

npm == "npm"

\* `${npm} run ${ctx.framework?.config.deployCommand ?? "deploy"}`
DeployCmd(c) ==
    <<npm, "run", IF IsDefined(c.framework) THEN Get(c.framework).deployCommand
                  ELSE "deploy">>

\* !ctx.account?.id is false
HasAccountId(c) == IsDefined(c.account) /\ Get(c.account).id # ""

Scheme == <<"https", "://">>
Sites == {"pages", "workers"}
Suffix(site) == <<".", site, ".", "dev">>

\* The positions e at which a match of /https:\/\/.+\.(pages|workers)\.dev/
\* that starts at position i can end: "https://", then one or more characters
\* other than a line terminator, then the suffix.
\* the pattern with the scheme loosened to https?
MatchEndsAnyScheme(s, i) ==
    { e \in 1..Len(s) :
        /\ \E scheme \in {"https", "http"} : OccursAt(s, <<scheme, "://">>, i)
        /\ e - 4 >= i + 2
        /\ \E site \in Sites : OccursAt(s, Suffix(site), e - 3)
        /\ \A k \in (i + 2)..(e - 4) : s[k] # "\n" }

MatchEnds(s, i) ==
    { e \in 1..Len(s) :
        /\ OccursAt(s, Scheme, i)
        /\ e - 4 >= i + 2
        /\ \E site \in Sites : OccursAt(s, Suffix(site), e - 3)
        /\ \A k \in (i + 2)..(e - 4) : s[k] # "\n" }

\* result.match(deployedUrlRegex): undefined (null), or match[0]: the leftmost
\* match, and from that start the longest one (.+ is greedy)
DeployedUrlMatch(result) ==
    LET starts == { i \in 1..Len(result) : MatchEnds(result, i) # {} }
    IN IF starts = {} THEN Undefined
       ELSE LET i == Min(starts)
            IN Some(SubSeq(result, i, Max(MatchEnds(result, i))))

\* lines 104-109: a URL ending in .pages.dev keeps the last 3 dot-separated
\* parts of what stands between the first and the second "://"
Canonicalize(url) ==
    IF EndsWith(url, Suffix("pages"))
    THEN LET parts == Split(url, "://")
             proto == parts[1]
             hostname == parts[2]
             hostnameWithoutSHA1 == Join(SliceLast(Split(hostname, "."), 3), ".")
         IN proto \o <<"://">> \o hostnameWithoutSHA1
    ELSE url

\* a guard that lets a declined deploy through
DeployDeclinedIgnored(c) == FALSE

\* a guard that takes every falsy flag for a declined deploy
DeployDeclinedFalsy(c) == ~Truthy(c.args.deploy)

\* line 78: ctx.args.deploy === false
DeployDeclined(c) == c.args.deploy = Some(FALSE)

RunDeploy(outputs) ==
    /\ pc = "runDeploy"
    /\ obs' = Entry("runDeploy")
    /\ UNCHANGED <<projectName, cwd, fs, git, prompts, ui>>
    /\ IF DeployDeclined(ctx)
       THEN Return(NextStep("runDeploy")) /\ UNCHANGED <<ctx, cmds>>
       ELSE IF ~HasAccountId(ctx)
       THEN Crash(MissingAccount) /\ UNCHANGED <<ctx, cmds>>
       ELSE LET run(ok, out) == Ran(DeployCmd(ctx), Some(Get(ctx.project).path),
                                    Some(Get(ctx.account).id), ok, out)
            IN \/ \* the deploy command exits non-zero: runCommand raises
                  /\ cmds' = Append(cmds, run(FALSE, <<>>))
                  /\ Raise(CommandFailed)
                  /\ UNCHANGED ctx
               \/ \E result \in outputs :
                    LET deployedUrlMatch == DeployedUrlMatch(result)
                    IN /\ cmds' = Append(cmds, run(TRUE, result))
                       /\ IF IsDefined(deployedUrlMatch)
                          THEN /\ ctx' = [ctx EXCEPT !.deployedUrl =
                                            Some(Canonicalize(Get(deployedUrlMatch)))]
                               /\ Return(NextStep("runDeploy"))
                          ELSE /\ Crash(NoDeploymentUrl)
                               /\ UNCHANGED ctx

-----------------------------------------------------------------------------
(* printSummary                                                             *)

\* lines 147-201: the banner, then for a deployed application the poll and,
\* when it succeeds and --open was given, the browser; then the closing line
PrintSummary ==
    /\ pc = "printSummary"
    /\ obs' = Entry("printSummary")
    /\ UNCHANGED <<ctx, projectName, cwd, fs, git, cmds, prompts>>
    /\ IF IsDefined(ctx.deployedUrl)
       THEN \E success \in BOOLEAN :
              LET shown == ui \o <<"SUCCESS", IF success THEN "poll ok" ELSE "poll timeout">>
              IN IF success /\ ctx.args.open
                 THEN \/ /\ ui' = shown \o <<"openInBrowser", "endSection">>
                         /\ Return(NextStep("printSummary"))
                      \/ \* openInBrowser rejects, nothing catches it
                         /\ ui' = shown \o <<"openInBrowser">>
                         /\ Raise(BrowserFailed)
                 ELSE /\ ui' = shown \o <<"endSection">>
                      /\ Return(NextStep("printSummary"))
       ELSE /\ ui' = ui \o <<"APPLICATION CREATED", "endSection">>
            /\ Return(NextStep("printSummary"))

-----------------------------------------------------------------------------
(* The texts a deploy command is taken to print: up to MaxUrls URL-like    *)
(* pieces, separated by a blank or a line break.  A piece is a scheme, up  *)
(* to MaxLabels host labels and possibly a deployment-host suffix.         *)

LabelName(i) == IF i = 1 THEN "a" ELSE IF i = 2 THEN "b" ELSE "c"

Host(n) == Join([i \in 1..n |-> <<LabelName(i)>>], ".")

Pieces ==
    { <<scheme, "://">> \o Host(n) \o suffix :
        scheme \in {"https", "http"},
        n \in 0..MaxLabels,
        suffix \in {Suffix(site) : site \in Sites} \cup {<<>>} }

Separators == {<<" ">>, <<"\n">>}

RECURSIVE OutputsUpTo(_)
OutputsUpTo(k) ==
    IF k = 0 THEN {<<>>}
    ELSE LET shorter == OutputsUpTo(k - 1)
         IN shorter \cup Pieces
                    \cup { o \o sep \o p :
                             o \in shorter \ {<<>>}, sep \in Separators, p \in Pieces }

Outputs == OutputsUpTo(MaxUrls)

-----------------------------------------------------------------------------
(* Initial states.                                                          *)

Project == [name |-> "foo", path |-> <<"home", "foo">>]
Acme == [id |-> "acct_1", name |-> Some("acme")]
Pages == [deployCommand |-> "pages:deploy"]

NoArgs == [deploy |-> Undefined, git |-> Undefined, open |-> FALSE]

EmptyCtx ==
    [project |-> Undefined, args |-> NoArgs, account |-> Undefined,
     framework |-> Undefined, deployedUrl |-> Undefined]

\* nothing has run yet
Fresh ==
    /\ error = "none"
    /\ cmds = <<>>
    /\ prompts = <<>>
    /\ ui = <<>>
    /\ obs = [step |-> "none", ctx0 |-> EmptyCtx, c0 |-> 0, p0 |-> 0, listed |-> <<>>]

\* runDeploy is about to be called: the project is set up, the deploy question
\* is answered, an account is bound or (after a failed login) not
InitDeploy ==
    /\ Fresh
    /\ pc = "runDeploy"
    /\ projectName = [abs |-> FALSE, segs |-> <<"foo">>]
    /\ cwd = <<"home">>
    /\ fs = [dirs |-> {<<>>, <<"home">>}, files |-> {}]
    /\ git = [installed |-> FALSE, repo |-> FALSE]
    /\ \E deploy \in BOOLEAN,
          account \in {Undefined, Some(Acme)},
          framework \in {Undefined, Some(Pages)} :
         ctx = [EmptyCtx EXCEPT !.project = Some(Project),
                                !.args.deploy = Some(deploy),
                                !.args.git = Some(FALSE),
                                !.account = account,
                                !.framework = framework]

\* The command line has been read and nothing has run: the working directory
\* exists, and so do the ancestors of every directory and of every file.
PathsUpTo(n) == UNION { [1..k -> Names] : k \in 0..n }
NamesUpTo(n) ==
    { [abs |-> abs, segs |-> segs] :
        abs \in BOOLEAN, segs \in UNION { [1..k -> Names \cup {".", ".."}] : k \in 0..n } }

InitDir ==
    /\ Fresh
    /\ pc = "setup"
    /\ ctx = EmptyCtx
    /\ git = [installed |-> FALSE, repo |-> FALSE]
    /\ projectName \in NamesUpTo(MaxDepth)
    /\ cwd \in { p \in PathsUpTo(MaxDepth) : \A k \in 1..Len(p) : p[k] = LabelName(k) }
    /\ \E other \in PathsUpTo(MaxDepth) :
         LET dirs == Prefixes(cwd) \cup Prefixes(other)
         IN \E files \in SUBSET { f \in PathsUpTo(MaxDepth) \ dirs : Dirname(f) \in dirs } :
              /\ Cardinality(files) <= 1
              /\ fs = [dirs |-> dirs, files |-> files]

NextDir == SetupProjectDirectory

SpecDir == InitDir /\ [][NextDir]_vars

\* offerGit is about to be called: the project is set up, --git was given,
\* --no-git was given, or neither
InitGit ==
    /\ Fresh
    /\ pc = "offerGit"
    /\ projectName = [abs |-> FALSE, segs |-> <<"foo">>]
    /\ cwd = <<"home">>
    /\ fs = [dirs |-> {<<>>, <<"home">>}, files |-> {}]
    /\ git \in [installed : BOOLEAN, repo : BOOLEAN]
    /\ \E useGit \in {Undefined, Some(TRUE), Some(FALSE)} :
         ctx = [EmptyCtx EXCEPT !.project = Some(Project),
                                !.args.deploy = Some(FALSE),
                                !.args.git = useGit]

NextGit == OfferGit \/ OfferGitAgain \/ GitCommit

SpecGit == InitGit /\ [][NextGit]_vars

\* The outputs tried in a run of the whole pipeline: nothing, the URL of a
\* Pages deployment, the URL of a Worker, and two URLs on one line.
PipelineOutputs ==
    { <<>>,
      <<"Take a peek over at ", "https", "://", "abcd1234", ".", "foo", ".", "pages", ".", "dev">>,
      <<"Published ", "https", "://", "foo", ".", "example", ".", "workers", ".", "dev">>,
      <<"https", "://", "abcd1234", ".", "foo", ".", "pages", ".", "dev", " ",
        "https", "://", "foo", ".", "pages", ".", "dev">> }

\* The command line has been read: each flag is given or not, git is runnable
\* or not, the working directory is inside a repository or not, and the
\* project directory is free or taken.
Init ==
    /\ Fresh
    /\ pc = "setup"
    /\ projectName = [abs |-> FALSE, segs |-> <<"foo">>]
    /\ cwd = <<"home">>
    /\ \E taken \in SUBSET {<<"home", "foo">>} :
         fs = [dirs |-> {<<>>, <<"home">>} \cup taken, files |-> {}]
    /\ git \in [installed : BOOLEAN, repo : BOOLEAN]
    /\ \E deploy \in {Undefined, Some(TRUE), Some(FALSE)},
          useGit \in {Undefined, Some(TRUE), Some(FALSE)},
          open \in BOOLEAN :
         ctx = [EmptyCtx EXCEPT !.args = [deploy |-> deploy, git |-> useGit, open |-> open]]

Next ==
    \/ SetupProjectDirectory
    \/ OfferToDeploy
    \/ OfferGit
    \/ GitCommit
    \/ RunDeploy(PipelineOutputs)
    \/ PrintSummary

Spec == Init /\ [][Next]_vars

NextDeploy == RunDeploy(Outputs)

SpecDeploy == InitDeploy /\ [][NextDeploy]_vars

\* runDeploy is called on its own, as an exported function: the deploy flag
\* may still be undefined, and the account may be missing or lack an id
InitCall ==
    /\ Fresh
    /\ pc = "runDeploy"
    /\ projectName = [abs |-> FALSE, segs |-> <<"foo">>]
    /\ cwd = <<"home">>
    /\ fs = [dirs |-> {<<>>, <<"home">>}, files |-> {}]
    /\ git = [installed |-> FALSE, repo |-> FALSE]
    /\ \E deploy \in {Undefined, Some(TRUE), Some(FALSE)},
          account \in {Undefined, Some(Acme), Some([id |-> NoId, name |-> Undefined])},
          framework \in {Undefined, Some(Pages)} :
         ctx = [EmptyCtx EXCEPT !.project = Some(Project),
                                !.args.deploy = deploy,
                                !.account = account,
                                !.framework = framework]

\* the outputs with at most one URL-like piece are enough here
NextCall == RunDeploy(OutputsUpTo(1))

SpecCall == InitCall /\ [][NextCall]_vars

-----------------------------------------------------------------------------
(* Properties of runDeploy, of the step order and of setupProjectDirectory. *)

\* the call of runCommand that runDeploy made, when it was the last step and
\* got as far as running the deploy command
DeployRan == obs.step = "runDeploy" /\ Len(StepCmds) = 1
DeployResult == StepCmds[1]

\* u is https://<host>, the host made of labels and dots only and ending in
\* .pages.dev or .workers.dev
IsDeploymentUrl(u) ==
    /\ Len(u) >= 7
    /\ OccursAt(u, Scheme, 1)
    /\ \E site \in Sites : EndsWith(u, Suffix(site))
    /\ \A k \in 3..Len(u) : u[k] \notin Whitespace \cup {"://", "/"}

\* some substring of s matches the deployment URL pattern: "https://", one or
\* more characters of one line, then .pages.dev or .workers.dev
ContainsDeploymentUrl(s) ==
    \E i \in 1..Len(s), j \in 1..Len(s) :
        LET u == SubSeq(s, i, j)
        IN /\ Len(u) >= 7
           /\ u[1] = "https" /\ u[2] = "://"
           /\ \E site \in Sites : EndsWith(u, Suffix(site))
           /\ \A k \in 3..(Len(u) - 4) : u[k] # "\n"

\* C1: whenever ctx.deployedUrl is set it is an https URL whose host ends in
\* .pages.dev or .workers.dev, whatever the deploy command printed.
C1_DeployedUrlIsDeploymentUrl ==
    IsDefined(ctx.deployedUrl) => IsDeploymentUrl(Get(ctx.deployedUrl))

\* C2: whenever runDeploy is about to run with args.deploy true, ctx.account
\* is set.
C2_AccountBeforeDeploy ==
    (pc = "runDeploy" /\ ctx.args.deploy = Some(TRUE)) => IsDefined(ctx.account)

\* C3: when the deploy command succeeded and its output contains no substring
\* matching the deployment URL pattern, the run has failed with NoDeploymentUrl
\* and ctx.deployedUrl is still undefined.
C3_NoUrlIsFatal ==
    (DeployRan /\ DeployResult.ok /\ ~ContainsDeploymentUrl(DeployResult.out))
        => /\ pc = "crashed"
           /\ error = NoDeploymentUrl
           /\ ctx.deployedUrl = Undefined

\* a deploy that printed text, none of it a deployment URL, has crashed
C3_Witness ==
    /\ DeployRan /\ DeployResult.ok
    /\ Len(DeployResult.out) >= 7
    /\ ~ContainsDeploymentUrl(DeployResult.out)
    /\ pc = "crashed" /\ error = NoDeploymentUrl
    /\ ctx.deployedUrl = Undefined

\* the matched URL with only the last 3 dot-separated labels of its host kept,
\* the host being all that follows "https://"
KeepLastThreeLabels(url) ==
    LET host == SubSeq(url, 3, Len(url))
    IN Scheme \o Join(SliceLast(Split(host, "."), 3), ".")

\* C4: a matched URL ending in .pages.dev is stored with only the last 3 labels
\* of its host, a matched URL ending in .workers.dev is stored unchanged.
C4_Canonicalization ==
    (DeployRan /\ DeployResult.ok /\ pc # "crashed")
        => LET matched == Get(DeployedUrlMatch(DeployResult.out))
           IN ctx.deployedUrl =
                Some(IF EndsWith(matched, Suffix("pages"))
                     THEN KeepLastThreeLabels(matched)
                     ELSE matched)

\* C5: a project name that resolves to an existing path other than the working
\* directory ends the run with DirectoryConflict, no directory created and the
\* working directory kept; one that resolves to the working directory does not
\* fail.
C5_DirectoryConflict ==
    [][pc = "setup" =>
         LET path == Resolve(projectName, cwd)
         IN /\ (path # cwd /\ path \in fs.dirs \cup fs.files)
                  => /\ pc' = "crashed" /\ error' = DirectoryConflict
                     /\ fs' = fs /\ cwd' = cwd /\ ctx' = ctx
            /\ path = cwd
                  => /\ pc' = NextStep("setup") /\ error' = "none"
                     /\ ctx'.project = Some([name |-> Basename(cwd), path |-> cwd])]_vars

\* a name that walks to an existing directory next to the working directory
C5_Witness ==
    /\ obs.step = "setup"
    /\ pc = "crashed" /\ error = DirectoryConflict
    /\ Resolve(projectName, cwd) # cwd
    /\ Resolve(projectName, cwd) \in fs.dirs
    /\ Len(projectName.segs) = 2
    /\ ctx.project = Undefined

-----------------------------------------------------------------------------
(* Properties of offerGit and initializeGit, on the state right after a    *)
(* call of offerGit.                                                        *)

AfterOfferGit == obs.step = "offerGit"

\* the positions, among the commands of the last step, of the commands cmd and
\* of the branch-aware init
RanCmd(cmd) == { i \in 1..Len(StepCmds) : StepCmds[i].cmd = cmd }
RanInitBranch ==
    { i \in 1..Len(StepCmds) :
        /\ Len(StepCmds[i].cmd) >= 3
        /\ SubSeq(StepCmds[i].cmd, 1, 3) = GitInitBranch }
Failed(I) == { i \in I : ~StepCmds[i].ok }

\* the call found no runnable git
ToolMissing == AfterOfferGit /\ Failed(RanCmd(GitVersion)) # {}

\* the call found the directory under version control: the status query
\* succeeded and its output lacks "not a git repository"
FoundRepo ==
    /\ AfterOfferGit
    /\ \E i \in RanCmd(GitStatus) : StepCmds[i].ok /\ ~Includes(StepCmds[i].out, NotARepo)

NoInitCommand == RanCmd(GitConfig) \cup RanInitBranch \cup RanCmd(GitInit) = {}

\* C6: git not runnable and args.git true on entry: args.git is false after
\* the step, and no status query, prompt or initialization command was made.
C6_NoToolDisablesGit ==
    (ToolMissing /\ obs.ctx0.args.git = Some(TRUE))
        => /\ ctx.args.git = Some(FALSE)
           /\ RanCmd(GitStatus) = {}
           /\ StepPrompts = <<>>
           /\ NoInitCommand

C6_Witness ==
    /\ ToolMissing /\ obs.ctx0.args.git = Some(TRUE)
    /\ ctx.args.git = Some(FALSE)
    /\ StepCmds = <<IsGitInstalled>>
    /\ pc = "gitCommit"

\* C7: every call of offerGit that finds the directory already under version
\* control makes no initialization command, asks nothing and leaves the
\* context as it was.
C7_VersionedIsLeftAlone ==
    FoundRepo => /\ NoInitCommand
                 /\ StepPrompts = <<>>
                 /\ ctx = obs.ctx0

\* two calls in a row on a versioned directory: four commands, two of them
\* status queries, nothing else
C7_Witness ==
    /\ FoundRepo
    /\ Calls = 2
    /\ Len(cmds) = 4
    /\ cmds[2].cmd = GitStatus /\ cmds[2].ok
    /\ cmds[4].cmd = GitStatus /\ cmds[4].ok
    /\ prompts = <<>>
    /\ ctx.args.git = Some(TRUE)

\* C8: the branch-aware init names the configured default branch, and names
\* "main" when the configured name is empty or unset.
C8_BranchOrMain ==
    AfterOfferGit =>
        \A i \in RanCmd(GitConfig) :
            LET configured == IF StepCmds[i].ok THEN Trim(StepCmds[i].out) ELSE <<>>
                wanted == IF configured = <<>> THEN <<"main">> ELSE configured
            IN /\ i + 1 <= Len(StepCmds)
               /\ StepCmds[i + 1].cmd = GitInitBranch \o wanted

\* C9 as claimed: a failure of the plain `git init` does not propagate.
C9_PlainInitNeverRaises ==
    (AfterOfferGit /\ Failed(RanCmd(GitInit)) # {}) => pc # "crashed"

\* C9: initializeGit raises exactly when its plain `git init` fails: a failure
\* of the config query or of the branch-aware init is caught, a failure of the
\* plain init is not.
C9_RaisesIffPlainInitFails ==
    AfterOfferGit =>
        ((pc = "crashed" /\ error = GitFailed) <=> Failed(RanCmd(GitInit)) # {})

C9_Witness ==
    /\ AfterOfferGit
    /\ Failed(RanInitBranch) # {}
    /\ Failed(RanCmd(GitInit)) # {}
    /\ pc = "crashed" /\ error = GitFailed

\* C10: at most one branch-aware and one plain init per call; a failed
\* branch-aware init is followed by exactly one plain init, a successful one by
\* none; a failed plain init ends the run.
C10_OneRetryThenFatal ==
    AfterOfferGit =>
        /\ Cardinality(RanInitBranch) <= 1
        /\ Cardinality(RanCmd(GitInit)) <= 1
        /\ \A i \in RanInitBranch :
              IF StepCmds[i].ok
              THEN RanCmd(GitInit) = {}
              ELSE RanCmd(GitInit) = {i + 1}
        /\ Failed(RanCmd(GitInit)) # {} => (pc = "crashed" /\ error = GitFailed)

C10_Witness ==
    /\ AfterOfferGit
    /\ \E i \in Failed(RanInitBranch) : RanCmd(GitInit) = {i + 1} /\ StepCmds[i + 1].ok
    /\ pc = "gitCommit"
    /\ git.repo

-----------------------------------------------------------------------------
(* Properties of chooseAccount, on the state right after offerToDeploy      *)
(* listed the accounts.                                                     *)

AfterChooseAccount == obs.step = "offerToDeploy" /\ IsDefined(obs.listed)
Listed == Get(obs.listed)
AskedAbout(question, log) == { i \in 1..Len(log) : log[i].question = question }

\* C11: with exactly one account listed, ctx.account is that entry's id and
\* name, and the selection prompt was not shown.
C11_SoleAccountIsTaken ==
    (AfterChooseAccount /\ Len(Listed) = 1)
        => /\ ctx.account = Some([id |-> Listed[1].id, name |-> Some(Listed[1].name)])
           /\ AskedAbout(AccountQuestion, StepPrompts) = {}

C11_Witness ==
    /\ AfterChooseAccount
    /\ Listed = <<[name |-> "acme", id |-> "acct_1"]>>
    /\ ctx.account = Some(Acme)
    /\ AskedAbout(AccountQuestion, prompts) = {}
    /\ pc = NextStep("offerToDeploy")

StoredAccount == Get(ctx.account)
IdsOf(accounts) == { accounts[i].id : i \in 1..Len(accounts) }
NamesOf(accounts, id) == { accounts[i].name : i \in { j \in 1..Len(accounts) : accounts[j].id = id } }

\* C12: with two or more accounts listed, ctx.account.id is one of the ids of
\* the listing and ctx.account.name is a name the listing sends to that id.
C12_ChosenAccountIsListed ==
    (AfterChooseAccount /\ Len(Listed) >= 2)
        => /\ StoredAccount.id \in IdsOf(Listed)
           /\ IsDefined(StoredAccount.name)
           /\ Get(StoredAccount.name) \in NamesOf(Listed, StoredAccount.id)
           /\ Cardinality(AskedAbout(AccountQuestion, StepPrompts)) = 1

C12_Witness ==
    /\ AfterChooseAccount
    /\ Listed = <<[name |-> "acme", id |-> "acct_1"], [name |-> "beta", id |-> "acct_2"]>>
    /\ ctx.account = Some([id |-> "acct_2", name |-> Some("beta")])
    /\ StepPrompts[Len(StepPrompts)] = [question |-> AccountQuestion, answer |-> "acct_2"]

\* C13: chooseAccount never stores an account whose name is undefined: when
\* the reverse lookup of the chosen id finds no name, the step fails instead.
C13_NoAccountWithoutName ==
    (obs.step = "offerToDeploy" /\ IsDefined(ctx.account))
        => IsDefined(StoredAccount.name)

-----------------------------------------------------------------------------
(* Properties of a declined deploy, of the context as a whole and of        *)
(* printSummary.                                                            *)

Shown(lines) == { i \in 1..Len(ui) : ui[i] \in lines }
PollOrBrowser == {"SUCCESS", "poll ok", "poll timeout", "openInBrowser"}
\* the operator or the flag said no to deploying
SaidNo(c) == IsDefined(c.args.deploy) /\ ~Get(c.args.deploy)
DeployCommands == { i \in 1..Len(cmds) : cmds[i].cmd = DeployCmd(ctx) }

\* C14: with args.deploy false, runDeploy runs no command, raises nothing
\* (account or not) and leaves the context as it was; ctx.deployedUrl stays
\* undefined to the end; printSummary shows APPLICATION CREATED and neither
\* polls nor opens the browser.
C14_DeclinedDeployIsNoOp ==
    /\ (obs.step = "runDeploy" /\ SaidNo(obs.ctx0))
         => /\ StepCmds = <<>>
            /\ pc = NextStep("runDeploy")
            /\ ctx = obs.ctx0
    /\ SaidNo(ctx)
         => /\ ctx.deployedUrl = Undefined
            /\ DeployCommands = {}
            /\ Shown(PollOrBrowser) = {}
    /\ (obs.step = "printSummary" /\ SaidNo(ctx))
         => /\ pc = NextStep("printSummary")
            /\ SliceLast(ui, 2) = <<"APPLICATION CREATED", "endSection">>

C14_Witness ==
    /\ pc = "done"
    /\ SaidNo(ctx)
    /\ ctx.account = Undefined
    /\ ctx.args.open
    /\ ctx.deployedUrl = Undefined
    /\ Cardinality(Shown({"APPLICATION CREATED"})) = 1

\* what one step may do to an optional field: fill it or leave it
Kept(old, new) == IsDefined(old) => IsDefined(new)

\* the step is a call of offerGit, wherever it is called from, that finds no
\* runnable git
OverrideWithoutTool ==
    /\ obs'.step = "offerGit"
    /\ ~git.installed
    /\ cmds' = Append(cmds, Ran(GitVersion, Undefined, Undefined, FALSE, <<>>))

\* C15: no step clears a context field that is set (project, args.deploy,
\* args.git, account, deployedUrl), and the only step that changes a flag of
\* args that is set is offerGit without a runnable git, turning args.git from
\* true to false.
C15_MonotonicFillIn ==
    [][ /\ Kept(ctx.project, ctx'.project)
        /\ Kept(ctx.args.deploy, ctx'.args.deploy)
        /\ Kept(ctx.args.git, ctx'.args.git)
        /\ Kept(ctx.account, ctx'.account)
        /\ Kept(ctx.deployedUrl, ctx'.deployedUrl)
        /\ ctx'.args.open = ctx.args.open
        /\ IsDefined(ctx.args.deploy) => ctx'.args.deploy = ctx.args.deploy
        /\ (IsDefined(ctx.args.git) /\ ctx'.args.git # ctx.args.git)
             => /\ ctx.args.git = Some(TRUE)
                /\ ctx'.args.git = Some(FALSE)
                /\ OverrideWithoutTool ]_vars

\* the override happened, and what was set before it is still set
C15_Witness ==
    /\ obs.step = "offerGit"
    /\ obs.ctx0.args.git = Some(TRUE) /\ ctx.args.git = Some(FALSE)
    /\ IsDefined(obs.ctx0.account) /\ ctx.account = obs.ctx0.account
    /\ IsDefined(ctx.project)
    /\ ctx.args.deploy = Some(TRUE)

AfterPrintSummary == obs.step = "printSummary"

\* C16: printSummary never raises, whether the poll or the browser fails, and
\* its last line is the closing message.
C16_SummaryNeverRaises ==
    AfterPrintSummary => (pc = NextStep("printSummary") /\ Last(ui) = "endSection")

-----------------------------------------------------------------------------
(* Properties of isInsideGitRepo, of the git question and of gitCommit.     *)

\* the status query said the directory is under version control
SaysRepo(run) == run.ok /\ ~Includes(run.out, NotARepo)
GitQuestions == AskedAbout(GitQuestion, StepPrompts)

\* C17: a status query that fails, or whose output holds "not a git
\* repository", makes offerGit go on as for a directory without repository
\* (it asks when args.git is undefined, it initializes when args.git is true),
\* and the failure of the query is never what the step raises; offerGit
\* returns at once, as for a repository, only on a query that succeeded
\* without that text.
C17_FailedQueryIsNotARepo ==
    AfterOfferGit =>
        \A i \in RanCmd(GitStatus) :
            IF SaysRepo(StepCmds[i])
            THEN /\ Len(StepCmds) = i
                 /\ StepPrompts = <<>>
                 /\ ctx = obs.ctx0
                 /\ pc # "crashed"
            ELSE /\ obs.ctx0.args.git = Undefined => GitQuestions # {}
                 /\ ctx.args.git = Some(TRUE) => RanCmd(GitConfig) # {}
                 /\ pc = "crashed" => (error = GitFailed /\ Failed(RanCmd(GitInit)) # {})

\* the query failed in a directory that is a repository, and offerGit asked
\* and initialized
C17_Witness ==
    /\ AfterOfferGit
    /\ obs.ctx0.args.git = Undefined
    /\ \E i \in Failed(RanCmd(GitStatus)) : i = 2
    /\ StepPrompts = <<[question |-> GitQuestion, answer |-> TRUE]>>
    /\ RanCmd(GitConfig) # {}
    /\ pc = NextStep("offerGit")

\* C19: offerGit asks about git only if git runs, the directory is not under
\* version control and args.git was undefined on entry; it asks at most once,
\* never when args.git was set, and it runs initialization commands only if
\* args.git is true after the decision.
C19_AsksOnlyWhenUndecided ==
    AfterOfferGit =>
        /\ GitQuestions # {}
             => /\ Failed(RanCmd(GitVersion)) = {}
                /\ \E i \in RanCmd(GitStatus) : ~SaysRepo(StepCmds[i])
                /\ obs.ctx0.args.git = Undefined
        /\ Len(StepPrompts) <= 1
        /\ IsDefined(obs.ctx0.args.git) => StepPrompts = <<>>
        /\ ~NoInitCommand => ctx.args.git = Some(TRUE)

\* the first call asked and was told no; the second call, in the same
\* directory, neither asks again nor initializes
C19_Witness ==
    /\ AfterOfferGit
    /\ Calls = 2
    /\ prompts = <<[question |-> GitQuestion, answer |-> FALSE]>>
    /\ obs.ctx0.args.git = Some(FALSE)
    /\ StepPrompts = <<>>
    /\ \E i \in RanCmd(GitStatus) : ~SaysRepo(StepCmds[i])
    /\ NoInitCommand

AfterGitCommit == obs.step = "gitCommit"
LastVersionQuery == Max({ i \in 1..obs.c0 : cmds[i].cmd = GitVersion })
\* the commands of the call of offerGit that came before gitCommit
OfferGitCmds == SubSeq(cmds, LastVersionQuery, obs.c0)
InitCmds(log) ==
    { i \in 1..Len(log) : log[i].cmd = GitConfig \/ SubSeq(log[i].cmd, 1, 2) = GitInit }

\* C20: gitCommit runs git add exactly when args.git is true after offerGit,
\* and git commit only after a git add that succeeded; so nothing is staged
\* when git does not run or when git was declined or left undecided, and a
\* repository that offerGit found, with git requested, is committed to
\* without any initialization.
C20_CommitIffGitEnabled ==
    AfterGitCommit =>
        /\ RanCmd(GitAdd) # {} <=> obs.ctx0.args.git = Some(TRUE)
        /\ RanCmd(GitCommitCmd) # {} => (RanCmd(GitAdd) # {} /\ Failed(RanCmd(GitAdd)) = {})
        /\ ~OfferGitCmds[1].ok => StepCmds = <<>>
        /\ obs.ctx0.args.git \in {Undefined, Some(FALSE)} => StepCmds = <<>>
        /\ (Len(OfferGitCmds) = 2 /\ SaysRepo(OfferGitCmds[2]) /\ obs.ctx0.args.git = Some(TRUE))
             => (RanCmd(GitAdd) # {} /\ InitCmds(OfferGitCmds) = {})

\* offerGit found a repository, git was requested, and both commands ran
C20_Witness ==
    /\ AfterGitCommit
    /\ Len(OfferGitCmds) = 2 /\ SaysRepo(OfferGitCmds[2])
    /\ ctx.args.git = Some(TRUE)
    /\ Len(StepCmds) = 2
    /\ StepCmds[1].cmd = GitAdd /\ StepCmds[1].ok
    /\ StepCmds[2].cmd = GitCommitCmd /\ StepCmds[2].ok
    /\ pc = NextStep("gitCommit")

-----------------------------------------------------------------------------
(* Property of the order inside offerToDeploy, over the whole run.          *)

Logins == AskedAbout(LoginQuestion, prompts)
LoginFailed == \E i \in Logins : ~prompts[i].answer
LoginSucceeded == \E i \in Logins : prompts[i].answer
AccountsListed == Shown({SelectingAccount}) # {}

\* C18: the accounts are listed, and one is selected, only after the deploy
\* decision came out true and the login succeeded, in that order; after a
\* failed login no account is listed, selected or stored, and no deploy
\* command is run in the rest of the run.
C18_LoginBeforeAccount ==
    /\ Logins # {} => ctx.args.deploy = Some(TRUE)
    /\ AccountsListed => (ctx.args.deploy = Some(TRUE) /\ LoginSucceeded)
    /\ IsDefined(ctx.account) => AccountsListed
    /\ \A i \in AskedAbout(DeployQuestion, prompts) : \A j \in Logins : i < j
    /\ \A j \in Logins : \A k \in AskedAbout(AccountQuestion, prompts) : j < k
    /\ LoginFailed
         => /\ ~AccountsListed
            /\ AskedAbout(AccountQuestion, prompts) = {}
            /\ ctx.account = Undefined
            /\ DeployCommands = {}

\* the login failed, and runDeploy later refused to run the command
C18_Witness ==
    /\ LoginFailed
    /\ obs.step = "runDeploy"
    /\ ctx.args.deploy = Some(TRUE)
    /\ pc = "crashed" /\ error = MissingAccount
    /\ DeployCommands = {}

-----------------------------------------------------------------------------
(* Property of runDeploy called with an undefined deploy flag.              *)

AfterRunDeploy == obs.step = "runDeploy"
\* the context runDeploy was called with binds an account with an id
BoundId(c) == IF IsDefined(c.account) THEN Get(c.account).id ELSE NoId

\* C21: runDeploy called with args.deploy undefined does what it does with
\* args.deploy true: without an account id it fails with MissingAccount and
\* runs nothing; with one it runs the deploy command exactly once, in the
\* project path and with the account id in the environment.  Only false makes
\* the call a no-op.
C21_UndefinedDeployIsDeploy ==
    AfterRunDeploy =>
        IF obs.ctx0.args.deploy = Some(FALSE)
        THEN StepCmds = <<>> /\ pc = NextStep("runDeploy") /\ ctx = obs.ctx0
        ELSE IF BoundId(obs.ctx0) = NoId
        THEN /\ StepCmds = <<>>
             /\ pc = "crashed" /\ error = MissingAccount
             /\ ctx = obs.ctx0
        ELSE /\ Len(StepCmds) = 1
             /\ StepCmds[1].cmd = DeployCmd(obs.ctx0)
             /\ StepCmds[1].cwd = Some(Get(obs.ctx0.project).path)
             /\ StepCmds[1].env = Some(BoundId(obs.ctx0))

\* the flag was undefined and the command ran, with the account of the context
C21_Witness ==
    /\ AfterRunDeploy
    /\ obs.ctx0.args.deploy = Undefined
    /\ Len(cmds) = 1
    /\ cmds[1].cmd = <<npm, "run", "deploy">>
    /\ cmds[1].env = Some("acct_1")
    /\ cmds[1].cwd = Some(<<"home", "foo">>)
    /\ IsDefined(ctx.deployedUrl)

=============================================================================
